---- MODULE Spec2Model ----
(***************************************************************************)
(* A state-machine model of src/scraper.py (class MomsScraper): the search *)
(* phase (nested letter loops around perform_search), the profile phase    *)
(* (one visit per collected URL) and save_csv.  The browser page is the    *)
(* environment: what a result page shows, and which awaited call raises,   *)
(* is chosen nondeterministically in each step.                            *)
(***************************************************************************)
EXTENDS Integers, Sequences, FiniteSets, TLC

\* ---------------------------------------------------------------- bounds
\* Number of letters of string.ascii_uppercase the model iterates over.
NumLetters == 2
\* Number of distinct certificates the site can link to.
NumCerts == 2

\* ------------------------------------------------------------- constants
\* The literal 30 of search_phase and perform_search.
Threshold == 30
\* Nesting depth of the letter loops of search_phase (fname, lname, mname).
MaxDepth == 3

BASE_URL == "https://moms.mn.gov/"

ALPHABETS == SubSeq(<<"A", "B", "C", "D", "E", "F">>, 1, NumLetters)

\* The value of an input of the search form that nothing was typed into.
Empty == ""

\* ------------------------------------------------------------------ hrefs
\* An href is a sequence of string pieces; an absolute href starts with the
\* piece BASE_URL (which starts with "http"), a relative one does not.
CertPath(c) == "Certificate/" \o ToString(c)
RelHref(c) == <<CertPath(c)>>
AbsHref(c) == <<BASE_URL, CertPath(c)>>
\* The hrefs a result page can carry: every certificate by a relative link,
\* certificate 1 also by an absolute link.
Hrefs == {RelHref(c) : c \in 1..NumCerts} \cup {AbsHref(1)}

startswith_http(href) == Len(href) > 0 /\ href[1] = BASE_URL

extract_profile_urls(page_links) ==
  { IF startswith_http(href) THEN href ELSE <<BASE_URL>> \o href
      : href \in {h \in page_links : h # <<>>} }

URLs == extract_profile_urls(Hrefs)
\* The reference whose discoveries are counted (in `surfaced`, up to two).
Tracked == AbsHref(1)

\* ------------------------------------------------------- result count
NoMatch == -1
\* page.inner_text("body") either raises or returns a text; of the text only
\* the first match of (\d+) results? matters: NoMatch or the number.
BodyTexts ==
  {[raises |-> TRUE, match |-> NoMatch], [raises |-> FALSE, match |-> NoMatch]}
    \cup {[raises |-> FALSE, match |-> n] : n \in {Threshold, Threshold + 1}}

get_result_count(body) ==
  IF body.raises THEN 0
  ELSE IF body.match # NoMatch THEN body.match
  ELSE 0

\* ------------------------------------------------------- search form
BlankForm == [fname |-> Empty, lname |-> Empty, mname |-> Empty]

\* The inputs after the page.fill calls of fill_search_form that come before
\* line `upto` (all of them for upto > 113): only the filters present are typed.
fill_search_form(f, flt, upto) ==
  [fname |-> IF Len(flt) >= 1 /\ upto > 109 THEN flt[1] ELSE f.fname,
   lname |-> IF Len(flt) >= 2 /\ upto > 111 THEN flt[2] ELSE f.lname,
   mname |-> IF Len(flt) >= 3 /\ upto > 113 THEN flt[3] ELSE f.mname]

\* The form of the page the site answers a submission with: the posted
\* values echoed back into the inputs, or a blank form, depending on the site.
Postback(posted, site_echoes) == IF site_echoes THEN posted ELSE BlankForm

\* Lines of fill_search_form whose awaited call can raise, for these filters.
FormFailLines(flt) ==
  {106, 109, 116, 117, 119}
    \cup (IF Len(flt) >= 2 THEN {111} ELSE {})
    \cup (IF Len(flt) >= 3 THEN {113} ELSE {})

\* Lines of extract_profile_urls whose awaited call can raise.
ExtractFailLines(page_links) ==
  {139} \cup (IF page_links # {} THEN {142} ELSE {})

\* The lines of extract_profile_urls at which a perform_search call can end:
\* those some result page reaches with a count that allows collecting.
ExtractRaiseLines ==
  {line \in ExtractFailLines(Hrefs) :
     \E b \in BodyTexts, page_links \in SUBSET Hrefs :
        /\ get_result_count(b) <= Threshold
        /\ line \in ExtractFailLines(page_links)}

\* ------------------------------------------------------- letter loops
Filters(q) == [i \in 1..Len(q) |-> ALPHABETS[q[i]]]

\* Variant: the threshold itself is excluded from collecting.
collects_below(result_count) == result_count < Threshold
collects(result_count) == result_count <= Threshold

refines(cnt) == cnt > Threshold

\* q is the position of the letter loops: one index per loop entered.
\* A loop has a next iteration when its letter is not the last one.
\* Variant: a loop that stops one letter short of the alphabet.
HasNext_short(q) == q # <<>> /\ q[Len(q)] < NumLetters - 1
HasNext(q) == q # <<>> /\ q[Len(q)] < NumLetters
Inc(q) == [q EXCEPT ![Len(q)] = @ + 1]
Pop(q) == IF q = <<>> THEN <<>> ELSE SubSeq(q, 1, Len(q) - 1)

\* The position after the body of the innermost loop is done: the next
\* iteration of the innermost of the three loops that has one left; <<>> when
\* the fname loop is exhausted too.
Advance(q) ==
  IF HasNext(q) THEN Inc(q)
  ELSE IF HasNext(Pop(q)) THEN Inc(Pop(q))
  ELSE IF HasNext(Pop(Pop(q))) THEN Inc(Pop(Pop(q)))
  ELSE <<>>

\* The loop indices of the perform_search call that follows the call with
\* indices q that returned cnt.
NextQuery(q, cnt) ==
  IF Len(q) < MaxDepth /\ refines(cnt) THEN Append(q, 1) ELSE Advance(q)

\* pc            where run is: "start", "search", "profile", "done", or
\*               "crashed" when an exception has left run
\* failed_at     the source line of the call that raised out of run (0: none)
\* page_content  page_content.html has been written
\* nextq         the letter-loop position of the next perform_search call
\* filters       the keyword arguments of the latest perform_search call
\* count         the count that call returned to search_phase
\* form          the name inputs of the search form on the page
\* submitted     the name inputs as they were when the form was last submitted
\* body, links   the body text and the certificate links of the result page
\* profile_urls  self.profile_urls
\* pending       what the loop of profile_phase has not yielded yet
\* results       self.results
\* csv_file      the content of moms.csv (NoFile: not opened)
\* echoes        whether the site echoes posted values into the form it returns
\* Observers, read by the properties only: node, kids (the queries issued at
\* each depth), outcome (how the visit of a reference ended), visit_log (the
\* references in the order visited), surfaced (how many collecting queries
\* surfaced Tracked, up to 2), csv_writes (how often moms.csv was opened).
VARIABLES pc, failed_at, page_content, nextq, filters, count, form, submitted,
          body, links, profile_urls, pending, results, csv_file,
          node, kids, outcome, visit_log, surfaced, csv_writes, echoes

vars == <<pc, failed_at, page_content, nextq, filters, count, form, submitted,
          body, links, profile_urls, pending, results, csv_file,
          node, kids, outcome, visit_log, surfaced, csv_writes, echoes>>

NoFile == <<>>
NoNode == [q |-> <<>>, count |-> 0]

Init ==
  /\ pc = "start"
  /\ failed_at = 0
  /\ page_content = FALSE
  /\ nextq = <<>>
  /\ filters = <<>>
  /\ count = 0
  /\ form = BlankForm
  /\ submitted = BlankForm
  /\ body = [raises |-> FALSE, match |-> NoMatch]
  /\ links = {}
  /\ profile_urls = {}
  /\ pending = {}
  /\ results = <<>>
  /\ csv_file = NoFile
  /\ node = [d \in 1..(MaxDepth - 1) |-> NoNode]
  /\ kids = [d \in 1..(MaxDepth - 1) |-> <<>>]
  /\ outcome = [u \in URLs |-> "none"]
  /\ visit_log = <<>>
  /\ surfaced = 0
  /\ csv_writes = 0
  /\ echoes \in BOOLEAN

\* search_phase has returned or was unwound, and the result page was left
\* (by page.goto in profile_phase, or by closing the browser): the loop
\* variables, the last call's arguments and the result page are gone.
Unwound ==
  /\ nextq' = <<>>
  /\ filters' = <<>>
  /\ count' = 0
  /\ form' = BlankForm
  /\ submitted' = BlankForm
  /\ body' = [raises |-> FALSE, match |-> NoMatch]
  /\ links' = {}
  /\ node' = [d \in 1..(MaxDepth - 1) |-> NoNode]
  /\ kids' = [d \in 1..(MaxDepth - 1) |-> <<>>]

\* run, up to the call of search_phase: open the landing page and dump it.
run_start ==
  /\ pc = "start"
  /\ \E raised \in {0, 51, 56} :
       /\ failed_at' = raised
       /\ page_content' = (raised = 0)
       /\ pc' = IF raised = 0 THEN "search" ELSE "crashed"
       /\ nextq' = IF raised = 0 THEN <<1>> ELSE nextq
  /\ UNCHANGED <<filters, count, form, submitted, body, links, profile_urls,
                 pending, results, csv_file, node, kids, outcome, visit_log,
                 surfaced, csv_writes, echoes>>

\* ------------------------------------------------------- search phase
\* node[d]: the latest query issued at depth d and the count it returned;
\* kids[d]: the letters of the queries issued one level beneath it so far.
Observe(nd, kd, q, flt, cnt) ==
  [n |-> [d \in 1..(MaxDepth - 1) |->
            IF d = Len(q) THEN [q |-> flt, count |-> cnt]
            ELSE IF d > Len(q) THEN NoNode
            ELSE nd[d]],
   k |-> [d \in 1..(MaxDepth - 1) |->
            IF d = Len(q) - 1 THEN Append(kd[d], flt[Len(flt)])
            ELSE IF d >= Len(q) THEN <<>>
            ELSE kd[d]]]

\* One iteration of the letter loops of search_phase: the perform_search
\* call with the current loop letters returns, and the loops move on.
perform_search ==
  /\ pc = "search"
  /\ LET flt == Filters(nextq)
         posted == fill_search_form(form, flt, 119)
     IN \E b \in BodyTexts, page_links \in SUBSET Hrefs :
          LET result_count == get_result_count(b)
              urls == extract_profile_urls(page_links)
              found == IF collects(result_count)
                       THEN profile_urls \cup urls ELSE profile_urls
              nxt == NextQuery(nextq, result_count)
              obs == Observe(node, kids, nextq, flt, result_count)
          IN /\ filters' = flt
             /\ submitted' = posted
             /\ form' = Postback(posted, echoes)
             /\ body' = b
             /\ links' = page_links
             /\ count' = result_count
             /\ profile_urls' = found
             /\ nextq' = nxt
             /\ pc' = IF nxt = <<>> THEN "profile" ELSE "search"
             /\ pending' = IF nxt = <<>> THEN found ELSE pending
             /\ node' = obs.n
             /\ kids' = obs.k
             /\ surfaced' = IF collects(result_count) /\ Tracked \in urls
                            THEN (IF surfaced < 2 THEN surfaced + 1 ELSE 2)
                            ELSE surfaced
  /\ UNCHANGED <<failed_at, page_content, results, csv_file, outcome,
                 visit_log, csv_writes, echoes>>

\* Variant: the exception is swallowed and run goes on to profile_phase.
search_swallowed == "profile"
\* The exception of an awaited call of the search phase leaves search_phase
\* and run: nothing catches it.
search_propagates == "crashed"

\* A perform_search call in which an awaited call raises: in
\* fill_search_form (before the form is submitted) or, when the count read
\* from some result page allows collecting, in extract_profile_urls.  The
\* exception unwinds search_phase and run, and leaving the `async with` of
\* run closes the browser: the locals and the page are gone, the fields of
\* the scraper object stay.
perform_search_raises ==
  /\ pc = "search"
  /\ \E line \in FormFailLines(Filters(nextq)) \cup ExtractRaiseLines :
       failed_at' = line
  /\ pc' = search_propagates
  /\ Unwound
  /\ UNCHANGED <<page_content, profile_urls, pending, results, csv_file,
                 outcome, visit_log, surfaced, csv_writes, echoes>>

\* ------------------------------------------------------- profile phase
KEYS == <<"Applicant 1", "Applicant 2", "Certificate Number", "Date Filed",
          "County", "Profile URL">>
SELECTORS == <<"#applicant1", "#applicant2", "#certificate", "#dateFiled",
               "#county">>
TextFields == 1..Len(SELECTORS)
FieldOutcomes == {"ok", "timeout", "error"}
\* How the five inner_text calls of one profile page end: all succeed, one
\* of them fails, or two of them fail in different ways.
AllOk == [i \in TextFields |-> "ok"]
FieldCases ==
  {AllOk}
    \cup {[AllOk EXCEPT ![i] = o] : i \in TextFields, o \in {"timeout", "error"}}
    \cup {[AllOk EXCEPT ![2] = "timeout", ![4] = "error"],
          [AllOk EXCEPT ![2] = "error", ![4] = "timeout"]}

UrlString(url) == url[1] \o url[2]
\* The text the profile page of url shows at a selector.
PageText(url, i) == url[2] \o SELECTORS[i]

\* `await safe_text(selector)`: safe_text is a plain function that returns
\* the coroutine page.inner_text(selector) without awaiting it, so its
\* try/except has already been left when the coroutine runs; what the
\* coroutine raises is raised by the await in scrape_profile.
safe_text(url, i, o) ==
  IF o = "ok" THEN [exc |-> "none", text |-> PageText(url, i)]
  ELSE [exc |-> o, text |-> Empty]

\* A record is the dict literal of scrape_profile: its (key, value) pairs in
\* insertion order.  The fields are evaluated in order; the first await that
\* raises ends the call.
scrape_profile(url, fo) ==
  LET got == [i \in TextFields |-> safe_text(url, i, fo[i])]
      bad == {i \in TextFields : got[i].exc # "none"}
  IN IF bad = {}
     THEN [exc |-> "none", line |-> 0,
           data |-> [i \in 1..Len(KEYS) |->
                       IF i \in TextFields THEN <<KEYS[i], got[i].text>>
                       ELSE <<KEYS[i], UrlString(url)>>]]
     ELSE LET i == CHOOSE j \in bad : \A k \in bad : j <= k
          IN [exc |-> got[i].exc, line |-> 171 + i, data |-> <<>>]

\* Variant: no except clause around the visit.
caught_none(exc) == FALSE
\* `except TimeoutError` of profile_phase.
caught(exc) == exc = "timeout"

\* Variant: a loop that does not move past the reference it visited.
Rest_keep(iter, url) == iter
\* What the for loop over profile_urls still has to yield after url.
Rest(iter, url) == iter \ {url}

\* One iteration of the loop of profile_phase.
profile_visit ==
  /\ pc = "profile"
  /\ pending # {}
  /\ \E url \in pending, nav \in FieldOutcomes :
     \E fo \in IF nav = "ok" THEN FieldCases ELSE {AllOk} :
       LET r == IF nav = "ok" THEN scrape_profile(url, fo)
                ELSE [exc |-> nav, line |-> 154, data |-> <<>>]
       IN /\ visit_log' = Append(visit_log, url)
          /\ outcome' = [outcome EXCEPT ![url] =
                           IF nav # "ok" THEN "nav_" \o nav
                           ELSE IF r.exc = "none" THEN "scraped"
                           ELSE "field_" \o r.exc]
          /\ IF r.exc = "none"
             THEN /\ results' = Append(results, r.data)
                  /\ pending' = Rest(pending, url)
                  /\ UNCHANGED <<pc, failed_at>>
             ELSE IF caught(r.exc)
             THEN /\ pending' = Rest(pending, url)
                  /\ UNCHANGED <<results, pc, failed_at>>
             ELSE /\ pc' = "crashed"
                  /\ failed_at' = r.line
                  /\ UNCHANGED <<results, pending>>
  /\ Unwound
  /\ UNCHANGED <<page_content, profile_urls, csv_file, surfaced, csv_writes,
                 echoes>>

\* ------------------------------------------------------- output
Keys(rec) == [i \in 1..Len(rec) |-> rec[i][1]]
Get(rec, key) ==
  IF \E i \in 1..Len(rec) : rec[i][1] = key
  THEN rec[CHOOSE i \in 1..Len(rec) : rec[i][1] = key][2]
  ELSE Empty
\* csv.DictWriter: a row is the record's values in the order of fieldnames;
\* a record with a key that is no fieldname makes writerows raise.
HasExtras(fieldnames, rec) ==
  \E i \in 1..Len(rec) : \A j \in 1..Len(fieldnames) : fieldnames[j] # rec[i][1]
DictRow(fieldnames, rec) ==
  [j \in 1..Len(fieldnames) |-> Get(rec, fieldnames[j])]

\* Variant: the first record is used up by the header.
write_rows_after_first(res) ==
  [opened |-> TRUE,
   file |-> [header |-> Keys(res[1]),
             rows |-> [i \in 1..(Len(res) - 1) |->
                         DictRow(Keys(res[1]), res[i + 1])]],
   raised |-> 0]
\* The `with open(...)` block of save_csv, for a non-empty list.
write_rows(res) ==
  LET fieldnames == Keys(res[1])
      bad == {i \in 1..Len(res) : HasExtras(fieldnames, res[i])}
  IN IF bad # {}
     THEN [opened |-> TRUE,
           file |-> [header |-> fieldnames, rows |-> <<>>],
           raised |-> 190]
     ELSE [opened |-> TRUE,
           file |-> [header |-> fieldnames,
                     rows |-> [i \in 1..Len(res) |-> DictRow(fieldnames, res[i])]],
           raised |-> 0]

\* Variant: no early return; the file is opened and results[0] raises.
save_csv_unguarded(res) ==
  IF res = <<>>
  THEN [opened |-> TRUE, file |-> [header |-> <<>>, rows |-> <<>>],
        raised |-> 188]
  ELSE write_rows(res)
save_csv(res) ==
  IF res = <<>> THEN [opened |-> FALSE, file |-> NoFile, raised |-> 0]
  ELSE write_rows(res)

\* The end of run: the loop of profile_phase is exhausted, the browser is
\* closed and save_csv runs.
run_finish ==
  /\ pc = "profile"
  /\ pending = {}
  /\ \E close_raises \in BOOLEAN :
       IF close_raises
       THEN /\ pc' = "crashed"
            /\ failed_at' = 61
            /\ UNCHANGED <<csv_file, csv_writes>>
       ELSE LET w == save_csv(results)
            IN /\ csv_file' = w.file
               /\ csv_writes' = csv_writes + (IF w.opened THEN 1 ELSE 0)
               /\ pc' = IF w.raised = 0 THEN "done" ELSE "crashed"
               /\ failed_at' = w.raised
  /\ Unwound
  /\ UNCHANGED <<page_content, profile_urls, pending, results, outcome,
                 visit_log, surfaced, echoes>>

Next ==
  \/ run_start
  \/ perform_search
  \/ perform_search_raises
  \/ profile_visit
  \/ run_finish

Spec == Init /\ [][Next]_vars

TypeOK ==
  /\ pc \in {"start", "search", "profile", "done", "crashed"}
  /\ profile_urls \subseteq URLs
  /\ pending \subseteq profile_urls
  /\ links \subseteq Hrefs
  /\ body \in BodyTexts
  /\ Len(nextq) <= MaxDepth

\* ------------------------------------------------------------ properties
\* The absolute reference of the certificate an href points to.
Reference(href) == <<BASE_URL, href[Len(href)]>>
References(page_links) == {Reference(h) : h \in page_links}

IsPrefix(p, q) == Len(p) <= Len(q) /\ \A i \in 1..Len(p) : q[i] = p[i]

\* A step in which a perform_search call returns to search_phase.
QueryStep == pc = "search" /\ pc' # "crashed" /\ nextq' # nextq
\* A perform_search call has returned and its result page is still shown.
AfterQuery == pc \in {"search", "profile"} /\ filters # <<>>

RecordsOf(u) ==
  {i \in 1..Len(results) : Get(results[i], "Profile URL") = UrlString(u)}
VisitsOf(u) == {i \in 1..Len(visit_log) : visit_log[i] = u}
NavOk(u) == outcome[u] \in {"scraped", "field_timeout", "field_error"}

SearchLines == {106, 109, 111, 113, 116, 117, 119, 139, 142}
SaveLines == {188, 189, 190}

\* C1 (as claimed): after a query with first, last and middle letter set, the
\* references of its result page are in the reference set whatever the count
\* was, and no deeper query follows.
C1_DepthThreeCollected ==
  (AfterQuery /\ Len(filters) = MaxDepth) =>
     /\ References(links) \subseteq profile_urls
     /\ Len(nextq) <= MaxDepth

\* C2 (as claimed): every reference whose navigation succeeded has a record in
\* the result list, and no field failure ends the run.
C2_FieldFailureKeepsRecord ==
  /\ \A u \in URLs : NavOk(u) => RecordsOf(u) # {}
  /\ failed_at \notin 172..176

\* C3: a query whose count is at most Threshold (0 when the count cannot be
\* parsed) extends the reference set by exactly the references of its result
\* page, and the next query is not a refinement of it.
C3_CollectAtOrBelowThreshold ==
  [][QueryStep =>
       /\ (body'.raises \/ body'.match = NoMatch) => count' = 0
       /\ ~(body'.raises \/ body'.match = NoMatch) => count' = body'.match
       /\ count' <= Threshold =>
            /\ profile_urls' = profile_urls \cup References(links')
            /\ Len(nextq') <= Len(nextq)
            /\ ~IsPrefix(nextq, nextq')]_vars

C3_Witness ==
  /\ AfterQuery
  /\ Len(filters) = 2
  /\ body.raises
  /\ count = 0
  /\ links # {}
  /\ References(links) \subseteq profile_urls
  /\ Len(nextq) = 2

\* C4: a query at depth 1 or 2 whose count exceeds Threshold is followed at
\* once by its child for the first letter; the children of a node are issued
\* one per letter in alphabet order and keep the parent's letters; and the
\* next query at the node's depth or above (or the end of the search) comes
\* only after all of them.
C4_RefineAboveThreshold ==
  [][QueryStep =>
       LET q == filters'
           d == Len(filters')
       IN /\ (filters # <<>> /\ Len(filters) < MaxDepth /\ count > Threshold)
               => q = Append(filters, ALPHABETS[1])
          /\ d >= 2 =>
               /\ node[d - 1].q = SubSeq(q, 1, d - 1)
               /\ node[d - 1].count > Threshold
               /\ Len(kids[d - 1]) < Len(ALPHABETS)
               /\ q[d] = ALPHABETS[Len(kids[d - 1]) + 1]
          /\ \A e \in d..(MaxDepth - 1) :
               (node[e].q # <<>> /\ node[e].count > Threshold)
                 => kids[e] = ALPHABETS
          /\ pc' = "profile" =>
               \A e \in 1..(MaxDepth - 1) :
                 (node'[e].q # <<>> /\ node'[e].count > Threshold)
                   => kids'[e] = ALPHABETS]_vars

C4_Witness ==
  /\ pc = "search"
  /\ node[1] = [q |-> <<ALPHABETS[1]>>, count |-> Threshold + 1]
  /\ kids[1] = ALPHABETS
  /\ node[2].count > Threshold
  /\ kids[2] = ALPHABETS
  /\ nextq = <<2>>

\* C5 (as claimed): a depth-1 query is submitted with the first name only, a
\* depth-2 query with first and last name only.
C5_OnlyOwnFilters ==
  (AfterQuery /\ Len(filters) < MaxDepth) =>
     submitted = [fname |-> filters[1],
                  lname |-> IF Len(filters) >= 2 THEN filters[2] ELSE Empty,
                  mname |-> Empty]

\* C6: the profile phase navigates to every member of the reference set
\* exactly once, however many queries surfaced it, and no reference has more
\* than one record.
C6_EachReferenceOnce ==
  \A u \in URLs :
     /\ Cardinality(VisitsOf(u)) <= 1
     /\ Cardinality(RecordsOf(u)) <= 1
     /\ VisitsOf(u) # {} => u \in profile_urls
     /\ pc = "profile" => (u \in pending <=> (u \in profile_urls /\ VisitsOf(u) = {}))
     /\ pc = "done" => (u \in profile_urls <=> Cardinality(VisitsOf(u)) = 1)

C6_Witness ==
  /\ pc = "done"
  /\ surfaced = 2
  /\ Cardinality(VisitsOf(Tracked)) = 1
  /\ Cardinality(RecordsOf(Tracked)) = 1
  /\ Cardinality(profile_urls) >= 2

\* C7: a navigation timeout leaves the result list as it is and the run in
\* the profile phase, with every other unvisited reference still to be
\* visited; the reference is never visited again and has no record; and a run
\* that finishes has visited every reference and recorded each whose visit
\* succeeded.
C7_TimeoutSkipsOnlyThatReference ==
  [][/\ \A u \in URLs :
          (outcome[u] # "nav_timeout" /\ outcome'[u] = "nav_timeout") =>
             /\ results' = results
             /\ pc' = "profile"
             /\ failed_at' = 0
             /\ pending' = pending \ {u}
             /\ visit_log' = Append(visit_log, u)
     /\ \A u \in URLs :
          outcome[u] = "nav_timeout" =>
             /\ VisitsOf(u)' = VisitsOf(u)
             /\ RecordsOf(u)' = {}
             /\ (pc' = "profile" =>
                   pending' = {v \in profile_urls : VisitsOf(v)' = {}})
             /\ (pc' = "done" =>
                   \A v \in profile_urls :
                      /\ VisitsOf(v)' # {}
                      /\ outcome'[v] = "scraped" => RecordsOf(v)' # {})]_vars

C7_Witness ==
  /\ pc = "done"
  /\ \E i, j \in 1..Len(visit_log) :
       /\ i < j
       /\ outcome[visit_log[i]] = "nav_timeout"
       /\ outcome[visit_log[j]] = "scraped"
       /\ RecordsOf(visit_log[j]) # {}
       /\ RecordsOf(visit_log[i]) = {}

\* C8: once an awaited call of the search phase other than the count read has
\* raised, the run is over: no reference is visited, no record exists and
\* no output file is written.
C8_SearchFailureEndsRun ==
  failed_at \in SearchLines =>
     /\ pc = "crashed"
     /\ visit_log = <<>>
     /\ results = <<>>
     /\ csv_file = NoFile
     /\ csv_writes = 0

C8_Witness ==
  /\ pc = "crashed"
  /\ failed_at = 119
  /\ profile_urls # {}
  /\ visit_log = <<>>

\* C9: with an empty record list no output file is opened or written and
\* save_csv does not raise.
C9_EmptyListWritesNothing ==
  results = <<>> =>
     /\ csv_file = NoFile
     /\ csv_writes = 0
     /\ failed_at \notin SaveLines

C9_Witness ==
  /\ pc = "done"
  /\ results = <<>>
  /\ profile_urls # {}
  /\ csv_file = NoFile

\* C10: every record has the six keys in the same order; the file is written
\* at most once and only when the profile phase is over; a finished run with
\* records has a header equal to the first record's keys and one row per
\* record, in order, holding that record's values in header order.
C10_HeaderAndRowsFollowRecords ==
  /\ \A i \in 1..Len(results) : Keys(results[i]) = KEYS
  /\ csv_writes <= 1
  /\ csv_file # NoFile => (pc = "done" /\ pending = {} /\ csv_writes = 1)
  /\ (pc = "done" /\ results # <<>>) =>
       /\ csv_file # NoFile
       /\ csv_file.header = Keys(results[1])
       /\ Len(csv_file.rows) = Len(results)
       /\ \A i \in 1..Len(results) :
            /\ Len(csv_file.rows[i]) = Len(csv_file.header)
            /\ \A j \in 1..Len(csv_file.header) :
                 /\ results[i][j][1] = csv_file.header[j]
                 /\ csv_file.rows[i][j] = results[i][j][2]

C10_Witness ==
  /\ pc = "done"
  /\ Len(results) >= 2
  /\ csv_file # NoFile
  /\ Len(csv_file.rows) = 2
====
